---- MODULE Spec2Model ----
(***************************************************************************)
(* Model of glim: the concurrent repository-status aggregation engine.     *)
(*                                                                         *)
(* Two entry points exist in the source and both are modelled:             *)
(*   entry = "cli"  : CLI::run_process (src/src/cli.rs), which opens the   *)
(*                    repositories on the main thread and dispatches one   *)
(*                    job per opened repository;                           *)
(*   entry = "main" : main (src/src/main.rs), which dispatches one job per *)
(*                    registered repository and opens it inside the job.   *)
(*                                                                         *)
(* Repository names are modelled by the naturals 1..MaxRepos; the order of *)
(* the naturals stands for the order of String keys in the BTreeMap.       *)
(***************************************************************************)
EXTENDS Naturals, Sequences, FiniteSets

(* ------------------------------ bounds --------------------------------- *)

\* Largest number of repositories in the registry.
MaxRepos == 2

\* Largest worker count given on the command line.
MaxWorkers == 2

VARIABLES
    entry,          \* which entry point runs: "cli" or "main"
    do_fetch,       \* !no_fetch
    workers,        \* worker count of the thread pool
    config,         \* names registered in config.repositories
    disk,           \* per name: the on-disk repository and its remote
    fetched,        \* names whose remote-tracking refs a fetch has updated
    pc,             \* position of the main thread
    iter,           \* names the HashMap iteration has not yet yielded
    repositories,   \* cli: Vec of opened repositories, in iteration order
    num_jobs,       \* number of results the collection step takes
    queue,          \* the pool's shared job queue (FIFO)
    job,            \* per name: position of its job
    status,         \* per name: Repository.status held by the job's handle
    pb_pos,         \* progress bar position
    pb_msg,         \* progress bar message (0 when none was set)
    chan,           \* the result channel (tx -> rx)
    taken,          \* results taken from rx so far
    sorted_map,     \* the BTreeMap, as its in-order sequence of entries
    rows,           \* rows added to the table
    stderr,         \* names reported with "Could not open"
    sent,           \* per name: number of results its job has sent
    attempted,      \* names whose job has called compute_status
    opened,         \* names whose Repository::open returned Ok
    fetch_result,   \* per name: what its job's fetch() did ("none" before)
    arrived,        \* names in the order their results left the channel
    registry,       \* config.repositories in memory: name -> path
    saved,          \* config.repositories as the config file holds it
    exit            \* "none" while running, "ok" for Ok(()), else the error

vars == << entry, do_fetch, workers, config, disk, fetched, pc, iter,
           repositories, num_jobs, queue, job, status, pb_pos, pb_msg, chan,
           taken, sorted_map, rows, stderr, sent, attempted, opened,
           fetch_result, arrived, registry, saved, exit >>

Names == 1..MaxRepos

(* ----------------------- git2::Status and Status ----------------------- *)

\* The git2::Status bits the program tests.  A status entry's status() is a
\* bitflags value, modelled as the set of its bits.
IndexFlags == {"INDEX_NEW", "INDEX_MODIFIED", "INDEX_DELETED", "INDEX_RENAMED",
               "INDEX_TYPECHANGE"}

WtChangeFlags == {"WT_MODIFIED", "WT_DELETED", "WT_RENAMED", "WT_TYPECHANGE"}

FileStatus == IndexFlags \cup WtChangeFlags \cup {"WT_NEW"}

\* enum Status { Known(HashSet<git2::Status>), Unknown }
Unknown == [tag |-> "Unknown", set |-> {}]

Known(set) == [tag |-> "Known", set |-> set]

\* The fold of compute_status: every entry's status() inserted into a HashSet.
StatusFold(statuses) == {statuses[i] : i \in 1..Len(statuses)}

\* HashSet::contains(&flag): membership of the value that is exactly that flag.
Contains(set, flag) == {flag} \in set

has_staged_files(st) ==
    IF st.tag = "Known"
    THEN \/ Contains(st.set, "INDEX_NEW")
         \/ Contains(st.set, "INDEX_MODIFIED")
         \/ Contains(st.set, "INDEX_DELETED")
         \/ Contains(st.set, "INDEX_RENAMED")
         \/ Contains(st.set, "INDEX_TYPECHANGE")
    ELSE FALSE

has_unstaged_files(st) ==
    IF st.tag = "Known"
    THEN \/ Contains(st.set, "WT_MODIFIED")
         \/ Contains(st.set, "WT_DELETED")
         \/ Contains(st.set, "WT_RENAMED")
         \/ Contains(st.set, "WT_TYPECHANGE")
    ELSE FALSE

has_untracked_files(st) ==
    IF st.tag = "Known" THEN Contains(st.set, "WT_NEW") ELSE FALSE

\* impl fmt::Display for Status: the pushed characters, as a sequence.
StatusDisplay(st) ==
    (IF has_staged_files(st) THEN <<"+">> ELSE <<>>)
    \o (IF has_unstaged_files(st) THEN <<"*">> ELSE <<>>)
    \o (IF has_untracked_files(st) THEN <<"_">> ELSE <<>>)

(* ------------------------------ Distance ------------------------------- *)

\* Mutant of DistanceOf: a linear comparison that never answers Both.
DistanceOfLinear(a, b) ==
    IF a = 0 /\ b = 0 THEN "Same"
    ELSE IF a > 0 THEN "Ahead"
    ELSE "Behind"

\* The match of Repository::distance on Ok((ahead, behind)), arm by arm.
DistanceOf(a, b) ==
    IF a = 0 /\ b = 0 THEN "Same"
    ELSE IF a > 0 /\ b = 0 THEN "Ahead"
    ELSE IF a = 0 /\ b > 0 THEN "Behind"
    ELSE "Both"

\* impl fmt::Display for Distance
DistanceDisplay(d) ==
    CASE d = "Same" -> "=="
      [] d = "Ahead" -> ">>"
      [] d = "Behind" -> "<<"
      [] d = "Both" -> "<>"

(* ------------------------- repositories on disk ------------------------ *)

\* Width of the commit summary column: .chars().take(50)
SummaryWidth == 50

\* What a registered path holds.  open: Repository::open succeeds; head: HEAD
\* resolves to a reference with a target; upstream: the head branch has an
\* upstream with a target; remote: what remote.fetch does ("ok", "err",
\* "panic" when the credentials callback runs with HOME unset, or "hang" when
\* the remote never answers and the call never returns); ahead and
\* behind: graph_ahead_behind before any fetch; incoming: commits a successful
\* fetch adds to the upstream; listing: what inner.statuses returns.
DiskA == [open |-> TRUE, head |-> TRUE, upstream |-> TRUE, remote |-> "ok",
          ahead |-> 2, behind |-> 0, incoming |-> 1,
          listing |-> [ok |-> TRUE,
                       entries |-> << {"INDEX_NEW"}, {"WT_NEW"}, {"WT_NEW"} >>],
          branch |-> "main", summary |-> <<"i", "n", "i", "t">>]

DiskB == [open |-> TRUE, head |-> TRUE, upstream |-> TRUE, remote |-> "err",
          ahead |-> 0, behind |-> 0, incoming |-> 1,
          listing |-> [ok |-> TRUE,
                       entries |-> << {"INDEX_MODIFIED", "WT_MODIFIED"} >>],
          branch |-> "dev", summary |-> <<"f", "i", "x">>]

DiskC == [open |-> FALSE, head |-> FALSE, upstream |-> FALSE, remote |-> "err",
          ahead |-> 0, behind |-> 0, incoming |-> 0,
          listing |-> [ok |-> FALSE, entries |-> << >>],
          branch |-> "", summary |-> << >>]

DiskD == [open |-> TRUE, head |-> TRUE, upstream |-> FALSE, remote |-> "ok",
          ahead |-> 0, behind |-> 0, incoming |-> 0,
          listing |-> [ok |-> FALSE, entries |-> << >>],
          branch |-> "main", summary |-> <<"w", "i", "p">>]

DiskE == [open |-> TRUE, head |-> TRUE, upstream |-> TRUE, remote |-> "panic",
          ahead |-> 1, behind |-> 3, incoming |-> 0,
          listing |-> [ok |-> TRUE, entries |-> << {"WT_MODIFIED"} >>],
          branch |-> "main", summary |-> <<"a", "d", "d">>]

DiskF == [open |-> TRUE, head |-> TRUE, upstream |-> TRUE, remote |-> "ok",
          ahead |-> 0, behind |-> 0, incoming |-> 2,
          listing |-> [ok |-> FALSE, entries |-> << >>],
          branch |-> "main", summary |-> <<"d", "o", "c">>]

DiskG == [open |-> TRUE, head |-> FALSE, upstream |-> FALSE, remote |-> "ok",
          ahead |-> 0, behind |-> 0, incoming |-> 0,
          listing |-> [ok |-> TRUE, entries |-> << {"WT_NEW"} >>],
          branch |-> "", summary |-> << >>]

Disks == {DiskA, DiskB, DiskC, DiskD, DiskE, DiskF, DiskG}

\* A repository whose remote accepts the connection and never answers.
DiskH == [open |-> TRUE, head |-> TRUE, upstream |-> TRUE, remote |-> "hang",
          ahead |-> 0, behind |-> 1, incoming |-> 1,
          listing |-> [ok |-> TRUE, entries |-> << {"INDEX_NEW"} >>],
          branch |-> "main", summary |-> <<"n", "e", "t">>]

\* What the paths hold in the runs with a remote that never answers: no
\* fetch of these runs panics.
HangDisks == {DiskA, DiskB, DiskC, DiskH}

\* Longest status listing of the single-repository runs.
MaxEntries == 3

\* Largest ahead and behind counts of the single-repository runs.
MaxCount == 2

\* The status() values of the entries in those listings: every tested bit
\* alone, and two entries that are changed in the index and in the working
\* tree at once.
EntryStatuses ==
    {{f} : f \in FileStatus}
    \cup {{"INDEX_MODIFIED", "WT_MODIFIED"}, {"INDEX_NEW", "WT_MODIFIED"}}

Listings == UNION {[1..k -> EntryStatuses] : k \in 0..MaxEntries}

ListingDisks ==
    {[DiskA EXCEPT !.listing = [ok |-> TRUE, entries |-> es]] : es \in Listings}

GraphDisks ==
    {[DiskA EXCEPT !.ahead = a, !.behind = b, !.incoming = i] :
        a \in 0..MaxCount, b \in 0..MaxCount, i \in 0..1}

\* Longest commit summary of the single-repository runs.
MaxSummary == 52

\* A commit summary of k characters; the characters alternate so that a cut
\* at another position gives another string.
SummaryOfLen(k) == [i \in 1..k |-> IF i % 2 = 1 THEN "a" ELSE "b"]

SummaryDisks ==
    {[DiskA EXCEPT !.summary = SummaryOfLen(k)] : k \in 0..MaxSummary}

WideDisks == Disks \cup ListingDisks \cup GraphDisks \cup SummaryDisks

\* Repository::fetch: head()? and branch_upstream_remote()? return Err when
\* unresolved; otherwise the outcome is that of remote.fetch.
FetchOutcome(d) ==
    IF ~d.head THEN "err"
    ELSE IF ~d.upstream THEN "err"
    ELSE d.remote

\* Mutant of DistanceCell: a missing head or upstream is taken for no distance
\* at all, (0, 0).
DistanceCellSame(d, wasFetched) ==
    IF ~d.head \/ ~d.upstream THEN DistanceDisplay(DistanceOf(0, 0))
    ELSE DistanceDisplay(
            DistanceOf(d.ahead,
                       d.behind + (IF wasFetched THEN d.incoming ELSE 0)))

\* Repository::distance, as the table cell: "" for None.
DistanceCell(d, wasFetched) ==
    IF ~d.head THEN ""
    ELSE IF ~d.upstream THEN ""
    ELSE DistanceDisplay(
            DistanceOf(d.ahead,
                       d.behind + (IF wasFetched THEN d.incoming ELSE 0)))

\* Repository::branch_name().unwrap_or_default()
BranchCell(d) == IF d.head THEN d.branch ELSE ""

\* Repository::remote_name().unwrap_or_default()
RemoteCell(d) == IF d.head /\ d.upstream THEN "origin" ELSE ""

\* Mutant of SummaryCell: the cut is one character short.
SummaryCellShort(d) ==
    IF ~d.head THEN << >>
    ELSE IF Len(d.summary) < SummaryWidth THEN d.summary
    ELSE SubSeq(d.summary, 1, SummaryWidth - 1)

\* commit_summary().unwrap_or_default().chars().take(50).collect()
SummaryCell(d) ==
    IF ~d.head THEN << >>
    ELSE IF Len(d.summary) <= SummaryWidth THEN d.summary
    ELSE SubSeq(d.summary, 1, SummaryWidth)

\* One table row: row![name, status, branch, distance, remote, summary]
Row(name, st, d, wasFetched) ==
    [name |-> name,
     status |-> StatusDisplay(st),
     branch |-> BranchCell(d),
     distance |-> DistanceCell(d, wasFetched),
     remote |-> RemoteCell(d),
     summary |-> SummaryCell(d)]

(* ------------------------------ BTreeMap ------------------------------- *)

\* Mutant of BTreeInsert: the entry is pushed at the end, as into a Vec.
BTreePush(map, key, value) == Append(map, [key |-> key, value |-> value])

\* BTreeMap::insert on the in-order sequence of entries: the value of an equal
\* key is replaced, otherwise the entry goes before the first greater key.
BTreeInsert(map, key, value) ==
    LET e == [key |-> key, value |-> value]
        less == {i \in 1..Len(map) : map[i].key < key}
        same == {i \in 1..Len(map) : map[i].key = key}
        at == Cardinality(less)
    IN  IF same # {}
        THEN [i \in 1..Len(map) |-> IF i \in same THEN e ELSE map[i]]
        ELSE SubSeq(map, 1, at) \o <<e>> \o SubSeq(map, at + 1, Len(map))

(* ------------------------------- Init ---------------------------------- *)

\* The state of the run itself when the report path starts: nothing opened,
\* dispatched, sent or collected.  The cli entry starts by opening the
\* repositories; the main entry starts by creating the pool.
InitRun ==
    /\ fetched = {}
    /\ pc = IF entry = "cli" THEN "open" ELSE "pool"
    /\ iter = config
    /\ repositories = << >>
    /\ num_jobs = 0
    /\ queue = << >>
    /\ job = [n \in Names |-> "none"]
    /\ status = [n \in Names |-> Unknown]
    /\ pb_pos = 0
    /\ pb_msg = 0
    /\ chan = << >>
    /\ taken = 0
    /\ sorted_map = << >>
    /\ rows = << >>
    /\ stderr = {}
    /\ sent = [n \in Names |-> 0]
    /\ attempted = {}
    /\ opened = {}
    /\ fetch_result = [n \in Names |-> "none"]
    /\ arrived = << >>
    /\ registry = [n \in config |-> << "x", n >>]
    /\ saved = registry
    /\ exit = "none"

\* The inputs of a run: the registry holds the names 1..n, each registered
\* path holds one of Disks, and the command line gave the worker count and the
\* fetch toggle.
Init ==
    /\ entry \in {"cli", "main"}
    /\ do_fetch \in BOOLEAN
    /\ workers \in 1..MaxWorkers
    /\ \E n \in 0..MaxRepos : config = 1..n
    /\ disk \in [Names -> Disks]
    /\ \A n \in Names \ config : disk[n] = DiskC
    /\ InitRun

\* The inputs of a run some of whose remotes may never answer.
InitHang ==
    /\ entry \in {"cli", "main"}
    /\ do_fetch \in BOOLEAN
    /\ workers \in 1..MaxWorkers
    /\ \E n \in 0..MaxRepos : config = 1..n
    /\ disk \in [Names -> HangDisks]
    /\ \A n \in Names \ config : disk[n] = DiskC
    /\ InitRun

\* The inputs of a run over at most one repository, whose listing and commit
\* graph range over WideDisks.
InitSingle ==
    /\ entry \in {"cli", "main"}
    /\ do_fetch \in BOOLEAN
    /\ workers = 1
    /\ config \in {{}, {1}}
    /\ \E d \in WideDisks :
          disk = [n \in Names |-> IF n \in config THEN d ELSE DiskC]
    /\ InitRun

(* ---------------------------- main thread ------------------------------ *)

\* cli.rs: one iteration of `for (name, path) in self.config.repositories()`.
\* A HashMap yields its entries in an arbitrary order.
OpenRepository(n) ==
    /\ entry = "cli"
    /\ pc = "open"
    /\ n \in iter
    /\ iter' = iter \ {n}
    /\ IF disk[n].open
       THEN /\ repositories' = Append(repositories, n)
            /\ opened' = opened \cup {n}
            /\ stderr' = stderr
       ELSE /\ stderr' = stderr \cup {n}
            /\ UNCHANGED << repositories, opened >>
    /\ pc' = IF iter' = {} THEN "pool" ELSE "open"
    /\ UNCHANGED << entry, do_fetch, workers, config, disk, fetched, num_jobs,
                    queue, job, status, pb_pos, pb_msg, chan, taken,
                    sorted_map, rows, sent, attempted,
                    fetch_result, arrived, registry, saved, exit >>

\* cli.rs with an empty registry: the loop body never runs.
OpenNothing ==
    /\ entry = "cli"
    /\ pc = "open"
    /\ iter = {}
    /\ pc' = "pool"
    /\ UNCHANGED << entry, do_fetch, workers, config, disk, fetched, iter,
                    repositories, num_jobs, queue, job, status, pb_pos,
                    pb_msg, chan, taken, sorted_map, rows, stderr, sent,
                    attempted, opened,
                    fetch_result, arrived, registry, saved, exit >>

\* num_jobs as each entry point sets it.
NumJobs == IF entry = "cli" THEN Len(repositories) ELSE Cardinality(config)

\* ThreadPool::new, channel(), num_jobs, ProgressBar::new.
CreatePool ==
    /\ pc = "pool"
    /\ num_jobs' = NumJobs
    /\ pc' = IF NumJobs = 0 THEN "collect" ELSE "dispatch"
    /\ UNCHANGED << entry, do_fetch, workers, config, disk, fetched, iter,
                    repositories, queue, job, status, pb_pos, pb_msg, chan,
                    taken, sorted_map, rows, stderr, sent, attempted, opened,
                    fetch_result, arrived, registry, saved, exit >>

\* cli.rs: one iteration of `for repository in repositories.into_iter()`:
\* pool.execute queues the job of the next opened repository.
DispatchOpened ==
    /\ entry = "cli"
    /\ pc = "dispatch"
    /\ repositories # << >>
    /\ queue' = Append(queue, Head(repositories))
    /\ job' = [job EXCEPT ![Head(repositories)] = "pending"]
    /\ repositories' = Tail(repositories)
    /\ pc' = IF repositories' = << >> THEN "collect" ELSE "dispatch"
    /\ UNCHANGED << entry, do_fetch, workers, config, disk, fetched, iter,
                    num_jobs, status, pb_pos, pb_msg, chan, taken, sorted_map,
                    rows, stderr, sent, attempted, opened,
                    fetch_result, arrived, registry, saved, exit >>

\* main.rs: one iteration of `for (name, path) in config.repositories().iter()`:
\* pool.execute queues a job for the next registered name.
DispatchRegistered(n) ==
    /\ entry = "main"
    /\ pc = "dispatch"
    /\ n \in iter
    /\ iter' = iter \ {n}
    /\ queue' = Append(queue, n)
    /\ job' = [job EXCEPT ![n] = "pending"]
    /\ pc' = IF iter' = {} THEN "collect" ELSE "dispatch"
    /\ UNCHANGED << entry, do_fetch, workers, config, disk, fetched,
                    repositories, num_jobs, status, pb_pos, pb_msg, chan,
                    taken, sorted_map, rows, stderr, sent, attempted, opened,
                    fetch_result, arrived, registry, saved, exit >>

(* --------------------------- the pool's jobs --------------------------- *)

\* A job occupies a worker from the moment it is taken off the queue until it
\* returns or panics (the pool replaces a worker whose job panicked).
Running(n) == job[n] \in {"opening", "fetching", "computing", "progress", "sending"}

\* The first step of the closure once its repository is at hand.
AfterOpen == IF do_fetch THEN "fetching" ELSE "computing"

\* Mutant of StartJob: a job starts although every worker is busy.
StartJobUnbounded(n) ==
    /\ queue # << >>
    /\ Head(queue) = n
    /\ queue' = Tail(queue)
    /\ job' = [job EXCEPT ![n] = IF entry = "cli" THEN AfterOpen ELSE "opening"]
    /\ UNCHANGED << entry, do_fetch, workers, config, disk, fetched, pc, iter,
                    repositories, num_jobs, status, pb_pos, pb_msg, chan,
                    taken, sorted_map, rows, stderr, sent, attempted, opened,
                    fetch_result, arrived, registry, saved, exit >>

\* Mutant of StartJob: the job stays in the queue for another worker to take.
StartJobKeep(n) ==
    /\ queue # << >>
    /\ Head(queue) = n
    /\ job[n] = "pending"
    /\ Cardinality({m \in Names : Running(m)}) < workers
    /\ queue' = Tail(queue) \o << n >>
    /\ job' = [job EXCEPT ![n] = IF entry = "cli" THEN AfterOpen ELSE "opening"]
    /\ UNCHANGED << entry, do_fetch, workers, config, disk, fetched, pc, iter,
                    repositories, num_jobs, status, pb_pos, pb_msg, chan,
                    taken, sorted_map, rows, stderr, sent, attempted, opened,
                    fetch_result, arrived, registry, saved, exit >>

\* An idle worker takes the job at the head of the shared queue.
StartJob(n) ==
    /\ queue # << >>
    /\ Head(queue) = n
    /\ Cardinality({m \in Names : Running(m)}) < workers
    /\ queue' = Tail(queue)
    /\ job' = [job EXCEPT ![n] = IF entry = "cli" THEN AfterOpen ELSE "opening"]
    /\ UNCHANGED << entry, do_fetch, workers, config, disk, fetched, pc, iter,
                    repositories, num_jobs, status, pb_pos, pb_msg, chan,
                    taken, sorted_map, rows, stderr, sent, attempted, opened,
                    fetch_result, arrived, registry, saved, exit >>

\* main.rs: `if let Ok(mut repository) = Repository::open(path)` in the job.
JobOpen(n) ==
    /\ job[n] = "opening"
    /\ IF disk[n].open
       THEN /\ opened' = opened \cup {n}
            /\ job' = [job EXCEPT ![n] = AfterOpen]
       ELSE /\ opened' = opened
            /\ job' = [job EXCEPT ![n] = "progress"]
    /\ UNCHANGED << entry, do_fetch, workers, config, disk, fetched, pc, iter,
                    repositories, num_jobs, queue, status, pb_pos, pb_msg,
                    chan, taken, sorted_map, rows, stderr, sent, attempted,
                    fetch_result, arrived, registry, saved, exit >>

\* Mutant of AfterFetch: the error is propagated, as with `repository.fetch()?`.
AfterFetchAbort(outcome) == IF outcome = "ok" THEN "computing" ELSE "panicked"

\* The job's position after `let _ = repository.fetch();`: an Ok or an Err is
\* dropped and the closure goes on; a panic unwinds the closure.
AfterFetch(outcome) == IF outcome = "panic" THEN "panicked" ELSE "computing"

\* `if do_fetch { let _ = repository.fetch(); }`
Fetch(n) ==
    /\ job[n] = "fetching"
    /\ FetchOutcome(disk[n]) # "hang"
    /\ fetched' = IF FetchOutcome(disk[n]) = "ok" THEN fetched \cup {n} ELSE fetched
    /\ fetch_result' = [fetch_result EXCEPT ![n] = FetchOutcome(disk[n])]
    /\ job' = [job EXCEPT ![n] = AfterFetch(FetchOutcome(disk[n]))]
    /\ UNCHANGED << entry, do_fetch, workers, config, disk, pc, iter,
                    repositories, num_jobs, queue, status, pb_pos, pb_msg,
                    chan, taken, sorted_map, rows, stderr, sent, attempted,
                    opened, arrived, registry, saved, exit >>

\* Repository::compute_status: `inner.statuses(..)?` returns early on an
\* error, leaving self.status as it was; otherwise the fold is stored.
compute_status(st, listing) ==
    IF listing.ok THEN Known(StatusFold(listing.entries)) ELSE st

\* `let _ = repository.compute_status();`
ComputeStatus(n) ==
    /\ job[n] = "computing"
    /\ status' = [status EXCEPT ![n] = compute_status(status[n], disk[n].listing)]
    /\ attempted' = attempted \cup {n}
    /\ job' = [job EXCEPT ![n] = "progress"]
    /\ UNCHANGED << entry, do_fetch, workers, config, disk, fetched, pc, iter,
                    repositories, num_jobs, queue, pb_pos, pb_msg, chan, taken,
                    sorted_map, rows, stderr, sent, opened,
                    fetch_result, arrived, registry, saved, exit >>

\* Mutant of Progress: the job goes on to send without touching the bar.
ProgressNone(n) ==
    /\ job[n] = "progress"
    /\ job' = [job EXCEPT ![n] = "sending"]
    /\ UNCHANGED << entry, do_fetch, workers, config, disk, fetched, pc, iter,
                    repositories, num_jobs, queue, status, pb_pos, pb_msg,
                    chan, taken, sorted_map, rows, stderr, sent, attempted,
                    opened, fetch_result, arrived, registry, saved, exit >>

\* `pb.set_message(name); pb.inc(1);`
Progress(n) ==
    /\ job[n] = "progress"
    /\ pb_msg' = n
    /\ pb_pos' = pb_pos + 1
    /\ job' = [job EXCEPT ![n] = "sending"]
    /\ UNCHANGED << entry, do_fetch, workers, config, disk, fetched, pc, iter,
                    repositories, num_jobs, queue, status, chan, taken,
                    sorted_map, rows, stderr, sent, attempted, opened,
                    fetch_result, arrived, registry, saved, exit >>

\* What the job sends: the repository (cli.rs), or the name with the
\* Option<Repository> (main.rs).
Result(n) == [name |-> n, some |-> n \in opened, status |-> status[n]]

\* `tx.send(..).unwrap();` and the closure returns.
Send(n) ==
    /\ job[n] = "sending"
    /\ chan' = Append(chan, Result(n))
    /\ sent' = [sent EXCEPT ![n] = @ + 1]
    /\ job' = [job EXCEPT ![n] = "completed"]
    /\ UNCHANGED << entry, do_fetch, workers, config, disk, fetched, pc, iter,
                    repositories, num_jobs, queue, status, pb_pos, pb_msg,
                    taken, sorted_map, rows, stderr, attempted, opened,
                    fetch_result, arrived, registry, saved, exit >>

(* ----------------------- collection and rendering ---------------------- *)

\* Mutant of TakeMore: one result too few is taken.
TakeMoreShort == taken + 1 < num_jobs

\* rx.iter().take(num_jobs): whether Take asks the channel for another item.
TakeMore == taken < num_jobs

\* One step of the fold: recv blocks until a result is there, then the closure
\* inserts it under its name.
Collect ==
    /\ pc = "collect"
    /\ TakeMore
    /\ chan # << >>
    /\ sorted_map' = BTreeInsert(sorted_map, Head(chan).name, Head(chan))
    /\ chan' = Tail(chan)
    /\ taken' = taken + 1
    /\ arrived' = Append(arrived, Head(chan).name)
    /\ UNCHANGED << entry, do_fetch, workers, config, disk, fetched, pc, iter,
                    repositories, num_jobs, queue, job, status, pb_pos, pb_msg,
                    rows, stderr, sent, attempted, opened, fetch_result,
                    registry, saved, exit >>

\* Take yields None without asking the channel; pb.finish_and_clear().
CollectDone ==
    /\ pc = "collect"
    /\ ~TakeMore
    /\ pc' = "render"
    /\ UNCHANGED << entry, do_fetch, workers, config, disk, fetched, iter,
                    repositories, num_jobs, queue, job, status, pb_pos, pb_msg,
                    chan, taken, sorted_map, rows, stderr, sent, attempted,
                    opened,
                    fetch_result, arrived, registry, saved, exit >>

\* Mutant of TableRows: a repository whose status is Unknown gets no row.
RECURSIVE TableRowsSkipUnknown(_)
TableRowsSkipUnknown(map) ==
    IF map = << >> THEN << >>
    ELSE LET e == Head(map)
         IN  (IF e.value.some /\ e.value.status.tag = "Known"
              THEN << Row(e.key, e.value.status, disk[e.key], e.key \in fetched) >>
              ELSE << >>)
             \o TableRowsSkipUnknown(Tail(map))

\* `for (name, repository) in sorted_map.iter()`: main.rs adds a row only for
\* Some(repository); cli.rs holds repositories only.
RECURSIVE TableRows(_)
TableRows(map) ==
    IF map = << >> THEN << >>
    ELSE LET e == Head(map)
         IN  (IF e.value.some
              THEN << Row(e.key, e.value.status, disk[e.key], e.key \in fetched) >>
              ELSE << >>)
             \o TableRows(Tail(map))

\* Mutant of Render: reading the status takes it out of the handle.
RenderTaking ==
    /\ pc = "render"
    /\ rows' = TableRows(sorted_map)
    /\ pc' = "done"
    /\ exit' = "ok"
    /\ status' = [n \in Names |-> Unknown]
    /\ UNCHANGED << entry, do_fetch, workers, config, disk, fetched, iter,
                    repositories, num_jobs, queue, job, pb_pos, pb_msg,
                    chan, taken, sorted_map, stderr, sent, attempted, opened,
                    fetch_result, arrived, registry, saved >>

\* The rows are added, the table is printed and the run returns Ok(()).
Render ==
    /\ pc = "render"
    /\ rows' = TableRows(sorted_map)
    /\ pc' = "done"
    /\ exit' = "ok"
    /\ UNCHANGED << entry, do_fetch, workers, config, disk, fetched, iter,
                    repositories, num_jobs, queue, job, status, pb_pos, pb_msg,
                    chan, taken, sorted_map, stderr, sent, attempted, opened,
                    fetch_result, arrived, registry, saved >>

(* ------------------------- the command phase --------------------------- *)

\* The longest list of paths or names one add or remove command is given.
MaxArgs == 2

\* The directories the paths of the command runs lie in.
Dirs == {"x", "y", "z"}

\* A path with no last component: add_repository reports "path is too short".
EmptyPath == << >>

\* A path is its directory and its last component, which names the repository.
Paths == {<< d, n >> : d \in Dirs, n \in Names} \cup {EmptyPath}

\* What the command runs find at a path: a healthy repository under x, no
\* repository under y, a repository whose fetch panics under z.
PathDisk(p) ==
    IF p[1] = "x" THEN DiskA ELSE IF p[1] = "y" THEN DiskC ELSE DiskE

\* The config files the command runs start from: every name of the file was
\* added from some directory.
Registries == UNION {[S -> Dirs] : S \in SUBSET Names}

PathOf(reg) == [n \in DOMAIN reg |-> << reg[n], n >>]

\* Config::add_repository: the name is the last component of the path; an
\* existing name is an error and the registry is left as it was.
add_repository(reg, path) ==
    IF path = EmptyPath
        THEN [reg |-> reg, err |-> "short"]
        ELSE IF path[2] \in DOMAIN reg
            THEN [reg |-> reg, err |-> "exists"]
            ELSE [reg |-> [n \in DOMAIN reg \cup {path[2]} |->
                              IF n = path[2] THEN path ELSE reg[n]],
                  err |-> "none"]

\* Config::remove_repository_by_name: tells whether the name was there.
remove_repository_by_name(reg, name) ==
    [reg |-> [n \in DOMAIN reg \ {name} |-> reg[n]],
     removed |-> name \in DOMAIN reg]

\* Config::rename_repository: a missing name and an existing new name are
\* errors; otherwise the path moves to the new name.
rename_repository(reg, name, new_name) ==
    IF name \notin DOMAIN reg
        THEN [reg |-> reg, err |-> "missing"]
        ELSE IF new_name \in DOMAIN reg
            THEN [reg |-> reg, err |-> "exists"]
            ELSE [reg |-> [n \in (DOMAIN reg \ {name}) \cup {new_name} |->
                              IF n = new_name THEN reg[name] ELSE reg[n]],
                  err |-> "none"]

\* The add loop: the first error returns from the command at once.
RECURSIVE AddLoop(_, _, _)
AddLoop(reg, paths, modified) ==
    IF paths = << >>
        THEN [reg |-> reg, err |-> "none", modified |-> modified]
        ELSE LET r == add_repository(reg, Head(paths))
             IN  IF r.err # "none"
                     THEN [reg |-> reg, err |-> r.err, modified |-> modified]
                     ELSE AddLoop(r.reg, Tail(paths), TRUE)

\* The remove loop: a name that is not there changes nothing.
RECURSIVE RemoveLoop(_, _, _)
RemoveLoop(reg, names, modified) ==
    IF names = << >>
        THEN [reg |-> reg, err |-> "none", modified |-> modified]
        ELSE LET r == remove_repository_by_name(reg, Head(names))
             IN  RemoveLoop(r.reg, Tail(names), modified \/ r.removed)

\* The state of a command run before the config is loaded.
InitCommand ==
    /\ entry \in {"cli", "main"}
    /\ do_fetch \in BOOLEAN
    /\ workers \in 1..MaxWorkers
    /\ config = {}
    /\ disk = [n \in Names |-> DiskC]
    /\ fetched = {}
    /\ pc = "load"
    /\ iter = {}
    /\ repositories = << >>
    /\ num_jobs = 0
    /\ queue = << >>
    /\ job = [n \in Names |-> "none"]
    /\ status = [n \in Names |-> Unknown]
    /\ pb_pos = 0
    /\ pb_msg = 0
    /\ chan = << >>
    /\ taken = 0
    /\ sorted_map = << >>
    /\ rows = << >>
    /\ stderr = {}
    /\ sent = [n \in Names |-> 0]
    /\ attempted = {}
    /\ opened = {}
    /\ fetch_result = [n \in Names |-> "none"]
    /\ arrived = << >>
    /\ registry = << >>
    /\ \E reg \in Registries : saved = PathOf(reg)
    /\ exit = "none"

\* The command line is parsed and the config file is read. A file that does
\* not parse, and in cli.rs an argument that does not, ends the run.
LoadConfig ==
    /\ pc = "load"
    /\ \E outcome \in {"ok", "load", "args"} :
        /\ outcome = "args" => entry = "cli"
        /\ IF outcome = "ok"
              THEN /\ registry' = saved
                   /\ pc' = "command"
                   /\ exit' = exit
              ELSE /\ registry' = registry
                   /\ pc' = "exit"
                   /\ exit' = outcome
    /\ UNCHANGED << entry, do_fetch, workers, config, disk, fetched, iter,
                    repositories, num_jobs, queue, job, status, pb_pos, pb_msg,
                    chan, taken, sorted_map, rows, stderr, sent, attempted,
                    opened, fetch_result, arrived, saved >>

\* Mutant of EndCommand: an error of the command is reported and the report
\* path runs over the registry as it stood.
EndCommandLenient(reg, modified, err) ==
    /\ registry' = reg
    /\ saved' = saved
    /\ exit' = IF err # "none" THEN err ELSE exit
    /\ config' = DOMAIN reg
    /\ iter' = DOMAIN reg
    /\ disk' = [n \in Names |->
                   IF n \in DOMAIN reg THEN PathDisk(reg[n]) ELSE DiskC]
    /\ pc' = IF entry = "cli" THEN "open" ELSE "pool"
    /\ UNCHANGED << entry, do_fetch, workers, fetched, repositories, num_jobs,
                    queue, job, status, pb_pos, pb_msg, chan, taken,
                    sorted_map, rows, stderr, sent, attempted, opened,
                    fetch_result, arrived >>

\* Mutant of EndCommand: a modified config is saved before the error of the
\* command is looked at.
EndCommandSaving(reg, modified, err) ==
    /\ registry' = reg
    /\ saved' = IF modified THEN reg ELSE saved
    /\ IF err # "none"
          THEN /\ exit' = err
               /\ pc' = "exit"
               /\ UNCHANGED << config, iter, disk >>
          ELSE /\ exit' = exit
               /\ pc' = IF entry = "cli" THEN "open" ELSE "pool"
               /\ config' = DOMAIN reg
               /\ iter' = DOMAIN reg
               /\ disk' = [n \in Names |->
                              IF n \in DOMAIN reg
                                  THEN PathDisk(reg[n]) ELSE DiskC]
    /\ UNCHANGED << entry, do_fetch, workers, fetched, repositories, num_jobs,
                    queue, job, status, pb_pos, pb_msg, chan, taken,
                    sorted_map, rows, stderr, sent, attempted, opened,
                    fetch_result, arrived >>

\* The end of the command: an error returns from the run (the ? operator), a
\* modified config is saved, main.rs then parses the worker count, and the
\* report path starts over the registry the command left.
EndCommand(reg, modified, err) ==
    /\ registry' = reg
    /\ \E written \in BOOLEAN, valid \in BOOLEAN :
        LET failure == IF err # "none" THEN err
                       ELSE IF modified /\ ~written THEN "save"
                       ELSE IF entry = "main" /\ ~valid THEN "args"
                       ELSE "none"
        IN  /\ saved' = IF err = "none" /\ modified /\ written
                           THEN reg ELSE saved
            /\ IF failure # "none"
                  THEN /\ exit' = failure
                       /\ pc' = "exit"
                       /\ UNCHANGED << config, iter, disk >>
                  ELSE /\ exit' = exit
                       /\ pc' = IF entry = "cli" THEN "open" ELSE "pool"
                       /\ config' = DOMAIN reg
                       /\ iter' = DOMAIN reg
                       /\ disk' = [n \in Names |->
                                      IF n \in DOMAIN reg
                                          THEN PathDisk(reg[n]) ELSE DiskC]
    /\ UNCHANGED << entry, do_fetch, workers, fetched, repositories, num_jobs,
                    queue, job, status, pb_pos, pb_msg, chan, taken,
                    sorted_map, rows, stderr, sent, attempted, opened,
                    fetch_result, arrived >>

\* glim add <path>...
CommandAdd ==
    /\ pc = "command"
    /\ \E k \in 1..MaxArgs : \E paths \in [1..k -> Paths] :
        LET r == AddLoop(registry, paths, FALSE)
        IN  EndCommand(r.reg, r.modified, r.err)

\* glim remove <name>...
CommandRemove ==
    /\ pc = "command"
    /\ \E k \in 1..MaxArgs : \E names \in [1..k -> Names] :
        LET r == RemoveLoop(registry, names, FALSE)
        IN  EndCommand(r.reg, r.modified, r.err)

\* glim rename <name> <new_name>
CommandRename ==
    /\ pc = "command"
    /\ \E name \in Names, new_name \in Names :
        LET r == rename_repository(registry, name, new_name)
        IN  EndCommand(r.reg, r.err = "none", r.err)

\* glim path <name>, a command of cli.rs only: a missing name is an error.
CommandPath ==
    /\ pc = "command"
    /\ entry = "cli"
    /\ \E name \in Names :
        EndCommand(registry, FALSE,
                   IF name \in DOMAIN registry THEN "none" ELSE "missing")

\* glim without a command.
CommandNone ==
    /\ pc = "command"
    /\ EndCommand(registry, FALSE, "none")

\* Sources::add: as add_repository, with the name given or taken from the
\* path.
sources_add(reg, path, name) ==
    IF name = 0 /\ path = EmptyPath
        THEN [reg |-> reg, err |-> "short"]
        ELSE LET key == IF name = 0 THEN path[2] ELSE name
             IN  IF key \in DOMAIN reg
                     THEN [reg |-> reg, err |-> "exists"]
                     ELSE [reg |-> [n \in DOMAIN reg \cup {key} |->
                                       IF n = key THEN path ELSE reg[n]],
                           err |-> "none"]

\* Sources::remove: a missing name is an error.
sources_remove(reg, name) ==
    IF name \in DOMAIN reg
        THEN [reg |-> [n \in DOMAIN reg \ {name} |-> reg[n]], err |-> "none"]
        ELSE [reg |-> reg, err |-> "missing"]

\* Sources::rename: the new name is looked up first, then the name is removed
\* and its path inserted under the new name.
sources_rename(reg, name, new_name) ==
    IF new_name \in DOMAIN reg
        THEN [reg |-> reg, err |-> "exists"]
        ELSE IF name \notin DOMAIN reg
            THEN [reg |-> reg, err |-> "missing"]
            ELSE [reg |-> [n \in (DOMAIN reg \ {name}) \cup {new_name} |->
                              IF n = new_name THEN reg[name] ELSE reg[n]],
                  err |-> "none"]

\* The run has ended, or has gone on to the report path, which only reads the
\* registry: the next invocation starts from the config file as it was left.
NextInvocation ==
    /\ pc \in {"open", "pool", "exit"}
    /\ pc' = "load"
    /\ exit' = "none"
    /\ registry' = << >>
    /\ config' = {}
    /\ iter' = {}
    /\ disk' = [n \in Names |-> DiskC]
    /\ UNCHANGED << entry, do_fetch, workers, fetched, repositories, num_jobs,
                    queue, job, status, pb_pos, pb_msg, chan, taken,
                    sorted_map, rows, stderr, sent, attempted, opened,
                    fetch_result, arrived, saved >>

\* Invocations that run a command, one after the other on the same file.
InitRegistry == InitCommand /\ entry = "cli" /\ ~do_fetch /\ workers = 1

Command ==
    \/ LoadConfig
    \/ CommandAdd
    \/ CommandRemove
    \/ CommandRename
    \/ CommandPath
    \/ CommandNone

(* --------------------------- specification ----------------------------- *)

MainThread ==
    \/ \E n \in Names : OpenRepository(n)
    \/ OpenNothing
    \/ CreatePool
    \/ DispatchOpened
    \/ \E n \in Names : DispatchRegistered(n)
    \/ Collect
    \/ CollectDone
    \/ Render

Job(n) ==
    \/ StartJob(n)
    \/ JobOpen(n)
    \/ Fetch(n)
    \/ ComputeStatus(n)
    \/ Progress(n)
    \/ Send(n)

Next == MainThread \/ \E n \in Names : Job(n)

Spec == Init /\ [][Next]_vars

\* Runs over at most one repository with a wide range of listings and graphs.
SpecSingle == InitSingle /\ [][Next]_vars

\* The main thread and every job keep running when they can.
FairSpec == Spec /\ WF_vars(MainThread) /\ \A n \in Names : WF_vars(Job(n))

\* Runs some of whose remotes may never answer.
SpecHang == InitHang /\ [][Next]_vars

FairHang == SpecHang /\ WF_vars(MainThread) /\ \A n \in Names : WF_vars(Job(n))

NextCommand == Command \/ Next

\* Whole runs: the config is loaded, the command runs, then the report path.
SpecCommand == InitCommand /\ [][NextCommand]_vars

FairCommand ==
    /\ SpecCommand
    /\ WF_vars(Command \/ MainThread)
    /\ \A n \in Names : WF_vars(Job(n))

NextRegistry == Command \/ NextInvocation

\* Sequences of commands over one config file.
SpecRegistry == InitRegistry /\ [][NextRegistry]_vars

(* ------------------------ what the inputs determine -------------------- *)

\* Names with a job: pool.execute was called for them.
Dispatched == {n \in Names : job[n] # "none"}

\* A job has ended when its closure returned or unwound.
Ended(n) == job[n] \in {"completed", "panicked"}

\* The elements of a finite set of names in ascending order.
RECURSIVE Ascending(_)
Ascending(S) ==
    IF S = {} THEN << >>
    ELSE LET least == CHOOSE n \in S : \A m \in S : n <= m
         IN  << least >> \o Ascending(S \ {least})

\* The row the inputs alone determine for an openable repository: its listing
\* folded (or nothing when the listing fails) and its upstream as a successful
\* fetch, when fetching is enabled, leaves it.
ExpectedRow(n) ==
    Row(n,
        IF disk[n].listing.ok THEN Known(StatusFold(disk[n].listing.entries))
                              ELSE Unknown,
        disk[n],
        do_fetch /\ FetchOutcome(disk[n]) = "ok")

ExpectedRows ==
    LET names == Ascending({n \in config : disk[n].open})
    IN  [i \in 1..Len(names) |-> ExpectedRow(names[i])]

(* ------------------------------- claims -------------------------------- *)

\* C1: every dispatched job sends exactly one result on every path: never two,
\* and a job that has ended has sent one.
C1_ExactlyOneResult ==
    \A n \in Names : sent[n] <= 1 /\ (Ended(n) => sent[n] = 1)

\* C2: when the run is done the aggregator holds exactly one result per
\* dispatched job, and the rows are the ones the registry, the disks and the
\* fetch toggle determine, whatever the worker count and the interleaving.
C2_DeterministicReport ==
    pc = "done" =>
        /\ Len(sorted_map) = Cardinality(Dispatched)
        /\ Len(arrived) = Cardinality(Dispatched)
        /\ rows = ExpectedRows

\* C2 witness: two workers ran two jobs to the end of the run.
C2_Witness ==
    /\ pc = "done"
    /\ workers = 2
    /\ Len(sorted_map) = 2
    /\ Len(rows) = 2

\* C3: the rows handed to the table are in strictly ascending order of name,
\* whatever the order in which the results arrived.
C3_RowsAscending ==
    \A i \in 1..Len(rows) : \A j \in 1..Len(rows) :
        i < j => rows[i].name < rows[j].name

\* C3 witness: the result of 2 arrived before the result of 1 and both rows
\* were rendered.
C3_Witness ==
    /\ pc = "done"
    /\ arrived = << 2, 1 >>
    /\ Len(rows) = 2

\* C4: the collection step takes exactly num_jobs results, one per dispatched
\* job, and under fair scheduling it completes.
C4_CollectionCompletes ==
    /\ [](pc \in {"render", "done"} =>
            /\ taken = num_jobs
            /\ Len(arrived) = Cardinality(Dispatched))
    /\ <>(pc \in {"render", "done"})

\* C5: a fetch failure in the job of x never keeps the row of another
\* openable repository y, whose own job does not fail, out of the final
\* sequence, nor changes a field of it.
C5_FetchFailureIsolated ==
    \A x \in Names : \A y \in Names \ {x} :
        [](( /\ fetch_result[x] \in {"err", "panic"}
             /\ y \in config
             /\ disk[y].open
             /\ (do_fetch => FetchOutcome(disk[y]) # "panic") )
           => <>(\E i \in 1..Len(rows) : rows[i] = ExpectedRow(y)))

\* C6: a job whose fetch returned an error is never aborted: it goes on to
\* compute_status and then to its send, and once it has ended it has attempted
\* the status computation and sent its one result.
C6_FetchErrorNotFatal ==
    \A n \in Names :
        fetch_result[n] = "err" =>
            \/ /\ job[n] = "computing"
               /\ ENABLED ComputeStatus(n)
            \/ /\ job[n] \in {"progress", "sending"}
               /\ n \in attempted
               /\ ENABLED Job(n)
            \/ /\ job[n] = "completed"
               /\ n \in attempted
               /\ sent[n] = 1

\* C6 witness: a job whose fetch returned an error computed its status and
\* sent its result, and the run went on to its end.
C6_Witness ==
    \E n \in Names :
        /\ fetch_result[n] = "err"
        /\ n \in attempted
        /\ sent[n] = 1
        /\ pc = "done"

\* C7: a repository that cannot be opened gets no job and is not counted in
\* the number of results the aggregator waits for.
C7_OpenFailuresExcluded ==
    /\ \A n \in config : ~disk[n].open => job[n] = "none"
    /\ pc \notin {"open", "pool"} =>
          num_jobs = Cardinality({n \in config : disk[n].open})

\* The facets of a listing as the classification rule gives them: an entry is
\* staged when it carries an index-side bit, unstaged when it carries a
\* working-tree change bit, untracked when it is new in the working tree.
StagedEntry(e) == e \cap IndexFlags # {}

UnstagedEntry(e) == e \cap WtChangeFlags # {}

UntrackedEntry(e) == "WT_NEW" \in e

\* C8: an entry that is both staged and unstaged contributes to both facets of
\* the status computed from its listing.
C8_EntryInBothFacets ==
    \A n \in Names :
        status[n].tag = "Known" =>
            \A i \in 1..Len(disk[n].listing.entries) :
                LET e == disk[n].listing.entries[i]
                IN  StagedEntry(e) /\ UnstagedEntry(e) =>
                        /\ has_staged_files(status[n])
                        /\ has_unstaged_files(status[n])

\* The symbol of a listing: "+", "*", "_" in that order, each present exactly
\* when some entry of the listing is in that facet.
FacetSymbol(entries) ==
    LET es == {entries[i] : i \in 1..Len(entries)}
    IN  (IF \E e \in es : StagedEntry(e) THEN <<"+">> ELSE << >>)
        \o (IF \E e \in es : UnstagedEntry(e) THEN <<"*">> ELSE << >>)
        \o (IF \E e \in es : UntrackedEntry(e) THEN <<"_">> ELSE << >>)

\* C9: the status cell of every row is the symbol of the facets present in the
\* repository's listing, and empty when the status was never computed.
C9_SymbolOfFacets ==
    \A i \in 1..Len(rows) :
        LET l == disk[rows[i].name].listing
        IN  rows[i].status = IF l.ok THEN FacetSymbol(l.entries) ELSE << >>

\* C10: for a repository whose head and upstream resolve, the distance cell is
\* "==" for (0,0), ">>" for (a>0,0), "<<" for (0,b>0) and "<>" for a>0, b>0,
\* where (a,b) are the ahead and behind counts at the time of rendering.
C10_DistanceMapping ==
    \A i \in 1..Len(rows) :
        LET n == rows[i].name
            d == disk[n]
            a == d.ahead
            b == d.behind + (IF n \in fetched THEN d.incoming ELSE 0)
            cell == rows[i].distance
        IN  d.head /\ d.upstream =>
                /\ (a = 0 /\ b = 0 => cell = "==")
                /\ (a > 0 /\ b = 0 => cell = ">>")
                /\ (a = 0 /\ b > 0 => cell = "<<")
                /\ (a > 0 /\ b > 0 => cell = "<>")
                /\ cell \in {"==", ">>", "<<", "<>"}

\* C10 witness: a repository one commit ahead and, after its fetch brought one
\* commit in, two behind was rendered as diverged.
C10_Witness ==
    /\ pc = "done"
    /\ Len(rows) = 1
    /\ disk[1].ahead = 1
    /\ disk[1].behind = 1
    /\ 1 \in fetched
    /\ rows[1].distance = "<>"

\* C11: a repository whose head or upstream cannot be resolved still gets its
\* row, with an empty distance cell, and its job ends normally.
C11_DistanceUnavailable ==
    pc = "done" =>
        \A n \in config :
            disk[n].open /\ (~disk[n].head \/ ~disk[n].upstream) =>
                /\ job[n] = "completed"
                /\ \E i \in 1..Len(rows) :
                       rows[i].name = n /\ rows[i].distance = ""

\* C11 witness: a repository with a head but no upstream was rendered.
C11_Witness ==
    /\ pc = "done"
    /\ \E i \in 1..Len(rows) :
           /\ disk[rows[i].name].head
           /\ ~disk[rows[i].name].upstream
           /\ rows[i].distance = ""

C13_StatusComputedOnce ==
    [][ /\ \A n \in Names : status[n].tag = "Known" => status'[n] = status[n]
        /\ (pc = "render" /\ pc' = "done") =>
              status' = status /\ attempted' = attempted ]_vars

\* C13 witness: a handle whose status is Known was read for the table.
C13_Witness ==
    /\ pc = "done"
    /\ \E i \in 1..Len(rows) : status[rows[i].name].tag = "Known"

RegistryErrors == {"exists", "missing"}

C16_RunEndsWithSuccess == (pc \in {"open", "pool"}) ~> (exit = "ok")

(* ---------------------------------------------------------------------- *)
(* C17..C20: the jobs of the pool                                         *)
(* ---------------------------------------------------------------------- *)

\* The phases of a job before its first step of work.
BeforeWork == {"pending", "opening"}

\* C17 as stated: every job goes from Pending to Fetching only if do_fetch is
\* set, from there (or from Pending if do_fetch is not set) to ComputingStatus,
\* and from there to its end; a fetch is always followed by the status
\* computation; without do_fetch no fetch is called; and a result is sent only
\* by a job whose status computation was attempted.
C17_JobStateMachine ==
    [][\A n \in Names :
          /\ (job'[n] = "fetching" /\ job[n] # "fetching") =>
                 do_fetch /\ job[n] \in BeforeWork
          /\ (job'[n] = "computing" /\ job[n] # "computing") =>
                 IF do_fetch THEN job[n] = "fetching" ELSE job[n] \in BeforeWork
          /\ (job[n] = "fetching" /\ job'[n] # "fetching") =>
                 job'[n] = "computing"
          /\ (job[n] = "computing" /\ job'[n] # "computing") =>
                 job'[n] = "progress"
          /\ ~do_fetch => fetch_result'[n] = "none"
          /\ sent'[n] > sent[n] => n \in attempted
      ]_vars

\* Jobs that have signalled progress.
Signalled == {n \in Names : job[n] \in {"sending", "completed"}}

\* C18 as stated: every dispatched job signals progress, once and with its own
\* name as the message; the position of the bar is the number of jobs that
\* have signalled, never exceeds the total and equals the total once the
\* collection has finished.
C18_ProgressExactlyOnce ==
    /\ [](pb_pos = Cardinality(Signalled))
    /\ [](pb_pos <= num_jobs)
    /\ [](pc \in {"render", "done"} => pb_pos = num_jobs)
    /\ [](pb_pos > 0 => pb_msg \in Signalled)
    /\ \A n \in Names : (job[n] = "pending") ~> (n \in Signalled)

\* Jobs in the Fetching or ComputingStatus state.
Working == {n \in Names : job[n] \in {"fetching", "computing"}}

\* C19: at most `workers` jobs are fetching or computing a status at the same
\* time (indeed at most `workers` jobs run at all), and the dispatched jobs
\* that no worker has taken are exactly the jobs of the shared queue, each
\* in it once.
C19_AtMostWWorkers ==
    /\ Cardinality(Working) <= workers
    /\ Cardinality({n \in Names : Running(n)}) <= workers
    /\ \A n \in Names :
           Cardinality({i \in 1..Len(queue) : queue[i] = n}) =
               IF job[n] = "pending" THEN 1 ELSE 0

\* C19 witness: every worker is fetching or computing and a job waits in the
\* queue.
C19_Witness ==
    /\ Cardinality(Working) = workers
    /\ queue # << >>
    /\ job[Head(queue)] = "pending"

\* The places a repository handle can be: the vector of opened repositories
\* before dispatch, the closure of its job, the channel, the aggregator's map.
InVec(n) == {i \in 1..Len(repositories) : repositories[i] = n}

InJob(n) == IF job[n] \in {"none", "completed"} THEN {} ELSE {n}

InChan(n) == {i \in 1..Len(chan) : chan[i].name = n /\ chan[i].some}

InMap(n) ==
    {i \in 1..Len(sorted_map) : sorted_map[i].key = n /\ sorted_map[i].value.some}

Holders(n) ==
    Cardinality(InVec(n)) + Cardinality(InJob(n))
        + Cardinality(InChan(n)) + Cardinality(InMap(n))

\* C20: an opened repository is in exactly one place at any time: its job
\* holds it from dispatch until the job has sent its result (or has died),
\* and then the channel and the aggregator's map alone; the job is in the
\* queue only while no worker has taken it, sends at most once, and the
\* status of a repository is written only by its own job while that job
\* computes the status, once.
C20_ExclusiveHandle ==
    [][\A n \in Names :
          /\ n \in opened' => Holders(n)' = 1
          /\ n \in opened' /\ job'[n] # "none" => InVec(n)' = {}
          /\ (InChan(n)' # {} \/ InMap(n)' # {}) => job'[n] = "completed"
          /\ (\E i \in 1..Len(queue') : queue'[i] = n) => job'[n] = "pending"
          /\ sent'[n] <= 1
          /\ (status'[n] # status[n] \/ (n \in attempted' /\ n \notin attempted)) =>
                 /\ job[n] = "computing"
                 /\ job'[n] = "progress"
                 /\ n \notin attempted
                 /\ \A m \in Names \ {n} : status'[m] = status[m]
      ]_vars

\* C20 witness: one job computes the status of its repository while the
\* aggregator already holds another repository.
C20_Witness ==
    \E n \in Names, m \in Names :
        /\ job[n] = "computing"
        /\ InMap(m) # {}
        /\ n \in opened

(* ---------------------------------------------------------------------- *)
(* C21: a fetch that never returns                                        *)
(* ---------------------------------------------------------------------- *)

\* C21 as stated: a job whose fetch never returns is ended, by a timeout or a
\* cancellation, and the run terminates with the report.
C21_HangingFetchEnds ==
    \A n \in Names :
        (job[n] = "fetching" /\ FetchOutcome(disk[n]) = "hang")
            ~> (job[n] # "fetching" /\ pc = "done")

(* ---------------------------------------------------------------------- *)
(* C22: collected, progress, dispatched                                   *)
(* ---------------------------------------------------------------------- *)

\* C22: the results the aggregator has taken, together with those still in
\* the channel, are at most the position of the progress bar, which is at
\* most the number of dispatched jobs: a job moves the bar before it sends.
C22_CollectedProgressDispatched ==
    /\ taken <= pb_pos
    /\ taken + Len(chan) <= pb_pos
    /\ pb_pos <= Cardinality(Dispatched)

\* C22 witness: one result is collected while a second job has moved the bar
\* and its result is not collected yet.
C22_Witness ==
    /\ taken = 1
    /\ pb_pos = 2
    /\ Cardinality(Dispatched) = 2

(* ---------------------------------------------------------------------- *)
(* C23: the registry under add, remove and rename                         *)
(* ---------------------------------------------------------------------- *)

\* A registry maps each of its names to one path with a last component.
IsRegistry(reg) ==
    /\ DOMAIN reg \subseteq Names
    /\ \A n \in DOMAIN reg : reg[n] \in Paths \ {EmptyPath}

\* r is the result of an operation on reg that reported an error or did not.
ErrorKeeps(reg, r) == r.err # "none" => r.reg = reg

\* r is the result of adding path under name key to reg.
AddedTo(reg, r, key, path) ==
    r.err = "none" =>
        /\ key \notin DOMAIN reg
        /\ DOMAIN r.reg = DOMAIN reg \cup {key}
        /\ r.reg[key] = path
        /\ \A n \in DOMAIN reg : r.reg[n] = reg[n]

\* r is the result of renaming name to new_name in reg.
RenamedIn(reg, r, name, new_name) ==
    r.err = "none" =>
        /\ r.reg[new_name] = reg[name]
        /\ Cardinality(DOMAIN r.reg) = Cardinality(DOMAIN reg)
        /\ DOMAIN r.reg = (DOMAIN reg \ {name}) \cup {new_name}
        /\ \A n \in DOMAIN reg \ {name} : r.reg[n] = reg[n]

\* What holds of every operation on a registry reg.
RegistryOperations(reg) ==
    /\ \A path \in Paths :
           /\ ErrorKeeps(reg, add_repository(reg, path))
           /\ path # EmptyPath =>
                  AddedTo(reg, add_repository(reg, path), path[2], path)
           /\ \A name \in Names \cup {0} :
                  /\ ErrorKeeps(reg, sources_add(reg, path, name))
                  /\ (name # 0 /\ path # EmptyPath) =>
                         AddedTo(reg, sources_add(reg, path, name), name, path)
    /\ \A name \in Names :
           /\ IsRegistry(remove_repository_by_name(reg, name).reg)
           /\ ErrorKeeps(reg, sources_remove(reg, name))
           /\ \A new_name \in Names :
                  /\ ErrorKeeps(reg, rename_repository(reg, name, new_name))
                  /\ RenamedIn(reg, rename_repository(reg, name, new_name),
                               name, new_name)
                  /\ ErrorKeeps(reg, sources_rename(reg, name, new_name))
                  /\ RenamedIn(reg, sources_rename(reg, name, new_name),
                               name, new_name)

\* The errors of a command that end the run before the config is saved.
CommandErrors == {"short", "exists", "missing", "save"}

\* C23: after any sequence of commands the registry in memory and the one in
\* the config file map each name to one path; on every registry a sequence
\* of commands can leave in the file (the registries a failed command leaves
\* in memory are among them), an add or a rename that returns an error leaves
\* the registry as it was and a successful rename keeps the path and the
\* size; and a command that ends with an error, such as an add of several
\* paths one of which fails, leaves the config file as it was, whatever the
\* command had added in memory before.
C23_RegistryOperations ==
    [][/\ IsRegistry(registry') /\ IsRegistry(saved')
       /\ pc = "load" => RegistryOperations(saved)
       /\ (exit = "none" /\ exit' \in CommandErrors) => saved' = saved
       /\ saved' # saved =>
              /\ saved' = registry'
              /\ exit' \in {"none", "args"}
      ]_vars

\* C23 witness: an add of two paths failed at the second one: the first name
\* is in the registry in memory and not in the config file.
C23_Witness ==
    /\ pc = "exit"
    /\ exit = "exists"
    /\ DOMAIN saved # {}
    /\ \E n \in DOMAIN registry \ DOMAIN saved :
           \A m \in DOMAIN saved : registry[m] = saved[m]

====
